---- MODULE Spec2Model ----
(***************************************************************************)
(* Model of the video indexing pipeline: the submission paths              *)
(* (app/api/videos.py, app/api/jobs.py), the queue worker                  *)
(* (worker/worker.py) and the stores they share: the relational tables of  *)
(* app/models.py, the blob store, the work queue and the vector index of   *)
(* app/pinecone_client.py.                                                 *)
(*                                                                         *)
(* Every API handler is one action, except create_job, which is split at   *)
(* its first commit because the job row is visible to other actors before  *)
(* the enqueue.  process_message is split at its blocking calls, because   *)
(* the API handlers run concurrently with the worker.  The outcome of each *)
(* external call (S3, SQS, database commit, vector index) is an input of   *)
(* the action that makes it.  The HTTP status a handler answers with is an  *)
(* operator of the state and the inputs (delete_job_status).               *)
(*                                                                         *)
(* Spec is the API with one worker.  SpecMain is the worker's main loop    *)
(* under signals and failing polls, SpecFaults the worker under process    *)
(* kills, SpecForeign the worker on a queue that foreign producers write   *)
(* to, SpecDup two workers on one queue; each is fed by upload_video.      *)
(* SpecLimit is upload_video alone, up to the limit of stored videos.      *)
(* SpecRank is one call of search_videos (app/api/search.py) for every     *)
(* request and every pool within the bounds, one loop iteration a step.    *)
(* SpecQuery is the sizing of the query of the index for every request the *)
(* schema admits.  SpecSampler is extract_frames                           *)
(* (worker/video_analyzer.py), one frame read a step, feeding the worker.  *)
(* SpecUploads is upload_video split at its await, so that uploads         *)
(* overlap.                                                                *)
(***************************************************************************)
EXTENDS Integers, FiniteSets, Sequences, Bags, TLC

\* ---------------------------------------------------------------- bounds
MaxVideos == 1      \* uploads the model follows
MaxJobs   == 2      \* jobs the model follows (uploads and create_job)
MaxFrames == 2      \* frames the sampler yields for a video
MaxCrashes == 1     \* times a worker process is killed and started again
MaxPool   == 4      \* candidates in the pool of a search
MaxCap    == 2      \* largest max_results_per_video and max_videos asked for
MaxDecoded == 5     \* frames a video file decodes to
MaxStride == 3      \* largest stride of the sampler
MaxUploading == 2   \* upload requests in flight at once

\* ------------------------------------------------------ program constants
max_videos_limit == 10
max_consecutive_errors == 10
max_videos_le == 100            \* SearchRequest.max_videos, le
max_results_per_video_le == 50  \* SearchRequest.max_results_per_video, le

None == "None"          \* a NULL string column
NoNum == 0 - 1          \* a NULL numeric column

PENDING    == "pending"
PROCESSING == "processing"
COMPLETED  == "completed"
FAILED     == "failed"
JobStatus  == {PENDING, PROCESSING, COMPLETED, FAILED}

Workers == {"w1"}

VARIABLES
    videos,     \* table videos: video id -> [s3_key, duration_seconds]
    jobs,       \* table processing_jobs: job id -> row
    frames,     \* table video_frames: bag of rows [video_id, frame_index]
    blobs,      \* S3 bucket: set of keys
    queue,      \* SQS queue: set of message bodies, received or not
    index,      \* vector index: set of [video_id, frame_index]
    nextVideo,  \* videos created so far (uuid4 source)
    nextJob,    \* jobs created so far (uuid4 source)
    req,        \* create_job request between its commit and its enqueue
    uploading,  \* upload requests past check_video_limit, reading their file
    pc,         \* worker -> position in main / process_message
    message,    \* worker -> body of the message being processed
    nframes,    \* worker -> len(frames) of the current attempt
    success,    \* worker -> return value of process_message, until the next receive
    tmp_path,   \* worker -> the temporary file of the attempt exists
    deleted,    \* worker -> rows deleted by its open transaction
    consecutive_errors, \* worker -> main's counter
    shutdown_flag,      \* worker -> the global set by signal_handler
    exit_status,        \* worker -> argument of sys.exit, NoNum while running
    loop_errors,        \* worker -> poll cycles in a row that raised
    restarts,           \* worker -> times the process was killed and restarted
    request,            \* search: the SearchRequest being answered
    pinecone_matches,   \* search: the pool returned by query_similar_frames
    video_results,      \* search: the groups of the scan, in insertion order
    cursor,             \* search: candidates of the filtered list consumed
    response,           \* search: the SearchResponse, None until returned
    search_pc,          \* search: position in search_videos
    top_k,              \* search: candidates asked of the index, 0 before
    cap,                \* sampler: the capture, [frames, fps] of the file
    sample_rate,        \* sampler: the stride
    frame_count,        \* sampler: frames read so far
    sampled,            \* sampler: source positions of the frames kept
    timestamps,         \* sampler: their timestamps
    extract_pc          \* sampler: position in extract_frames

\* the locals of process_message, and the state of main
attempt == <<message, nframes, success, tmp_path, deleted>>
loop    == <<consecutive_errors, shutdown_flag, exit_status, loop_errors,
             restarts>>

\* the state of one call of search_videos
search == <<request, pinecone_matches, video_results, cursor, response,
            search_pc, top_k>>

\* the state of one call of extract_frames
sampler == <<cap, sample_rate, frame_count, sampled, timestamps, extract_pc>>

vars == <<videos, jobs, frames, blobs, queue, index, nextVideo, nextJob,
          req, uploading, pc, attempt, loop, search, sampler>>

store  == <<videos, jobs, frames, blobs, queue, index>>
api    == <<nextVideo, nextJob, req, uploading>>
worker == <<pc, attempt, loop>>

\* ------------------------------------------------------------- data model
\* app/models.py ProcessingJob; the timestamps and the result metrics are
\* left out of the row: no code reads them back
NewJob(video_id) ==
    [video_id |-> video_id, status |-> PENDING, error_message |-> None]

\* the work message written by upload_video and create_job
Body(job_id, video_id, s3_key) ==
    [job_id |-> job_id, video_id |-> video_id, s3_key |-> s3_key]

\* no message / no request (job ids start at 1)
NoBody == Body(0, 0, 0)

\* the rows of a video in the bag fs, and the rows of the other videos
FramesOf(video_id, fs) ==
    [f \in {x \in DOMAIN fs : x.video_id = video_id} |-> fs[f]]
FramesNotOf(video_id, fs) ==
    [f \in {x \in DOMAIN fs : x.video_id # video_id} |-> fs[f]]
VectorsOf(video_id, ix) == {x \in ix : x.video_id = video_id}
JobsOf(video_id, js) == {j \in DOMAIN js : js[j].video_id = video_id}

\* f with the keys in ks removed
Without(f, ks) == [k \in DOMAIN f \ ks |-> f[k]]
\* f with key k added or replaced
With(f, k, v) == [x \in DOMAIN f \cup {k} |-> IF x = k THEN v ELSE f[x]]

\* no search request is being answered
NoSearch ==
    /\ request = [threshold |-> 0, max_results_per_video |-> 1, max_videos |-> 1]
    /\ pinecone_matches = <<>>
    /\ video_results = <<>>
    /\ cursor = 0
    /\ response = None
    /\ search_pc = "idle"
    /\ top_k = 0

\* no file is being sampled
NoSampler ==
    /\ cap = [frames |-> 0, fps |-> 0]
    /\ sample_rate = 1
    /\ frame_count = 0
    /\ sampled = <<>>
    /\ timestamps = <<>>
    /\ extract_pc = "idle"

Init ==
    /\ videos = <<>>
    /\ jobs = <<>>
    /\ frames = EmptyBag
    /\ blobs = {}
    /\ queue = {}
    /\ index = {}
    /\ nextVideo = 0
    /\ nextJob = 0
    /\ req = NoBody
    /\ uploading = 0
    /\ pc = [w \in Workers |-> "poll"]
    /\ message = [w \in Workers |-> NoBody]
    /\ nframes = [w \in Workers |-> 0]
    /\ success = [w \in Workers |-> "none"]
    /\ tmp_path = [w \in Workers |-> FALSE]
    /\ deleted = [w \in Workers |-> EmptyBag]
    /\ consecutive_errors = [w \in Workers |-> 0]
    /\ shutdown_flag = [w \in Workers |-> FALSE]
    /\ exit_status = [w \in Workers |-> NoNum]
    /\ loop_errors = [w \in Workers |-> 0]
    /\ restarts = [w \in Workers |-> 0]
    /\ NoSearch
    /\ NoSampler

\* ------------------------------------------------------- submission paths
\* app/api/videos.py check_video_limit: TRUE when the limit is reached
check_video_limit == Cardinality(DOMAIN videos) >= max_videos_limit

\* upload_video with check_video_limit called after put_object
upload_video_checks_late(valid, s3Ok, sqsOk) ==
    /\ LET video_id == nextVideo + 1
           job_id   == nextJob + 1
       IN  IF ~valid \/ ~s3Ok
           THEN UNCHANGED <<store, nextVideo, nextJob>>
           ELSE IF check_video_limit
           THEN /\ blobs' = blobs \cup {video_id}
                /\ UNCHANGED <<videos, jobs, frames, queue, index,
                               nextVideo, nextJob>>
           ELSE /\ blobs' = blobs \cup {video_id}
                /\ videos' = With(videos, video_id,
                                  [s3_key |-> video_id, duration_seconds |-> NoNum])
                /\ jobs' = With(jobs, job_id, NewJob(video_id))
                /\ nextVideo' = video_id
                /\ nextJob' = job_id
                /\ queue' = IF sqsOk
                            THEN queue \cup {Body(job_id, video_id, video_id)}
                            ELSE queue
                /\ UNCHANGED <<frames, index>>
    /\ UNCHANGED <<req, uploading, worker, search, sampler>>

\* POST /videos/upload.  valid: validate_video_file accepts the file;
\* s3Ok: put_object succeeds; sqsOk: send_message succeeds.
upload_video(valid, s3Ok, sqsOk) ==
    /\ LET video_id == nextVideo + 1
           job_id   == nextJob + 1
       IN  IF check_video_limit \/ ~valid \/ ~s3Ok
           THEN UNCHANGED <<store, nextVideo, nextJob>>
           ELSE /\ blobs' = blobs \cup {video_id}
                /\ videos' = With(videos, video_id,
                                  [s3_key |-> video_id, duration_seconds |-> NoNum])
                /\ jobs' = With(jobs, job_id, NewJob(video_id))
                /\ nextVideo' = video_id
                /\ nextJob' = job_id
                /\ queue' = IF sqsOk
                            THEN queue \cup {Body(job_id, video_id, video_id)}
                            ELSE queue
                /\ UNCHANGED <<frames, index>>
    /\ UNCHANGED <<req, uploading, worker, search, sampler>>

\* POST /videos/upload up to 'await file.read()' (lines 106-116), where the
\* event loop runs other requests.
upload_video_begin(valid) ==
    /\ IF check_video_limit \/ ~valid
       THEN UNCHANGED uploading
       ELSE uploading' = uploading + 1
    /\ UNCHANGED <<store, nextVideo, nextJob, req, worker, search, sampler>>

\* POST /videos/upload from put_object on (lines 117-176).
upload_video_finish(s3Ok, sqsOk) ==
    /\ uploading > 0
    /\ uploading' = uploading - 1
    /\ LET video_id == nextVideo + 1
           job_id   == nextJob + 1
       IN  IF ~s3Ok
           THEN UNCHANGED <<store, nextVideo, nextJob>>
           ELSE /\ blobs' = blobs \cup {video_id}
                /\ videos' = With(videos, video_id,
                                  [s3_key |-> video_id, duration_seconds |-> NoNum])
                /\ jobs' = With(jobs, job_id, NewJob(video_id))
                /\ nextVideo' = video_id
                /\ nextJob' = job_id
                /\ queue' = IF sqsOk
                            THEN queue \cup {Body(job_id, video_id, video_id)}
                            ELSE queue
                /\ UNCHANGED <<frames, index>>
    /\ UNCHANGED <<req, worker, search, sampler>>

\* POST /jobs, up to and including the commit of the PENDING row.
create_job_begin(video_id, dbOk) ==
    /\ req = NoBody
    /\ nextJob < MaxJobs
    /\ IF video_id \notin DOMAIN videos \/ ~dbOk
       THEN UNCHANGED <<jobs, nextJob, req>>
       ELSE LET job_id == nextJob + 1
            IN  /\ jobs' = With(jobs, job_id, NewJob(video_id))
                /\ nextJob' = job_id
                /\ req' = Body(job_id, video_id, videos[video_id].s3_key)
    /\ UNCHANGED <<videos, frames, blobs, queue, index, nextVideo, uploading, worker, search, sampler>>

\* create_job_send marking the job FAILED although the message was sent
create_job_send_marks_sent(sqsOk, dbOk) ==
    /\ req # NoBody
    /\ queue' = IF sqsOk THEN queue \cup {req}
                ELSE queue
    /\ jobs' = IF req.job_id \in DOMAIN jobs /\ dbOk
               THEN [jobs EXCEPT ![req.job_id] =
                       [@ EXCEPT !.status = FAILED,
                                 !.error_message = "SQS enqueue failed"]]
               ELSE jobs
    /\ req' = NoBody
    /\ UNCHANGED <<videos, frames, blobs, index, nextVideo, nextJob, uploading, worker, search, sampler>>

\* POST /jobs, the enqueue and its ClientError handler.
create_job_send(sqsOk, dbOk) ==
    /\ req # NoBody
    /\ IF sqsOk
       THEN /\ queue' = queue \cup {req}
            /\ jobs' = jobs
       ELSE /\ queue' = queue
            /\ jobs' = IF req.job_id \in DOMAIN jobs /\ dbOk
                       THEN [jobs EXCEPT ![req.job_id] =
                               [@ EXCEPT !.status = FAILED,
                                         !.error_message = "SQS enqueue failed"]]
                       ELSE jobs
    /\ req' = NoBody
    /\ UNCHANGED <<videos, frames, blobs, index, nextVideo, nextJob, uploading, worker, search, sampler>>

\* DELETE /jobs/{job_id}: the HTTP status of the answer.  dbOk: the delete
\* commits.
delete_job_status(job_id, dbOk) ==
    IF job_id \notin DOMAIN jobs THEN 404
    ELSE IF jobs[job_id].status \in {PENDING, PROCESSING} THEN 400
    ELSE IF dbOk THEN 204
    ELSE 500

\* delete_job_rows without the status guard
delete_job_rows_unguarded(js, job_id, dbOk) ==
    IF job_id \in DOMAIN js /\ dbOk THEN Without(js, {job_id}) ELSE js

\* DELETE /jobs/{job_id}: the job table after the request.
delete_job_rows(js, job_id, dbOk) ==
    IF delete_job_status(job_id, dbOk) = 204 THEN Without(js, {job_id}) ELSE js

\* DELETE /jobs/{job_id}
delete_job(job_id, dbOk) ==
    /\ jobs' = delete_job_rows(jobs, job_id, dbOk)
    /\ UNCHANGED <<videos, frames, blobs, queue, index, api, worker, search, sampler>>

\* app/pinecone_client.py delete_video_embeddings
delete_video_embeddings(video_id, ix) == ix \ VectorsOf(video_id, ix)

\* the HTTP status of DELETE /videos/{id}
delete_video_status(video_id, pineconeOk, s3Ok, dbOk) ==
    IF video_id \notin DOMAIN videos THEN 404
    ELSE IF ~pineconeOk \/ ~dbOk THEN 500
    ELSE 200

\* delete_video with a failure of the vector index passed over, as the
\* failure of S3 is
delete_video_ignores_pinecone(video_id, pineconeOk, s3Ok, dbOk) ==
    /\ IF video_id \notin DOMAIN videos
       THEN UNCHANGED store
       ELSE /\ index' = IF pineconeOk
                         THEN delete_video_embeddings(video_id, index)
                         ELSE index
            /\ blobs' = IF s3Ok THEN blobs \ {videos[video_id].s3_key} ELSE blobs
            /\ IF dbOk
               THEN /\ jobs' = Without(jobs, JobsOf(video_id, jobs))
                    /\ frames' = FramesNotOf(video_id, frames)
                    /\ videos' = Without(videos, {video_id})
               ELSE UNCHANGED <<jobs, frames, videos>>
            /\ queue' = queue
    /\ UNCHANGED <<api, worker, search, sampler>>

\* DELETE /videos/{video_id}.  pineconeOk, s3Ok, dbOk: the index delete, the
\* blob delete and the commit succeed.
delete_video(video_id, pineconeOk, s3Ok, dbOk) ==
    /\ IF video_id \notin DOMAIN videos \/ ~pineconeOk
       THEN UNCHANGED store
       ELSE /\ index' = delete_video_embeddings(video_id, index)
            /\ blobs' = IF s3Ok THEN blobs \ {videos[video_id].s3_key} ELSE blobs
            /\ IF dbOk
               THEN /\ jobs' = Without(jobs, JobsOf(video_id, jobs))
                    /\ frames' = FramesNotOf(video_id, frames)
                    /\ videos' = Without(videos, {video_id})
               ELSE UNCHANGED <<jobs, frames, videos>>
            /\ queue' = queue
    /\ UNCHANGED <<api, worker, search, sampler>>

\* ------------------------------------------------------------------ worker
\* worker.py update_job_status: what the caller gets back, the refreshed job
\* or None
update_job_status_returns(js, job_id, dbOk) ==
    IF job_id \in DOMAIN js /\ dbOk THEN "job" ELSE None

\* update_job_status inserting a row for a job it does not find
update_job_status_creates(js, job_id, status, fields, dbOk) ==
    IF ~dbOk THEN js
    ELSE IF job_id \in DOMAIN js
    THEN [js EXCEPT ![job_id] =
            [k \in DOMAIN @ |->
                IF k = "status" THEN status
                ELSE IF k \in DOMAIN fields THEN fields[k]
                ELSE @[k]]]
    ELSE With(js, job_id, [NewJob(0) EXCEPT !.status = status])

\* worker.py update_job_status: the job table after the call.  fields are
\* the keyword arguments; dbOk = FALSE is the except branch (rollback,
\* return None).
update_job_status(js, job_id, status, fields, dbOk) ==
    IF job_id \in DOMAIN js /\ dbOk
    THEN [js EXCEPT ![job_id] =
            [k \in DOMAIN @ |->
                IF k = "status" THEN status
                ELSE IF k \in DOMAIN fields THEN fields[k]
                ELSE @[k]]]
    ELSE js

\* the rows process_message builds for n sampled frames (lines 138-144)
frames_data(video_id, n) ==
    {[video_id |-> video_id, frame_index |-> i] : i \in 0..(n - 1)}

\* store_frame_embeddings without the delete of the existing rows
store_frame_embeddings_append(fs, del, video_id, n) ==
    fs (+) SetToBag(frames_data(video_id, n))

\* worker.py store_frame_embeddings: the frame table after the commit of a
\* transaction whose DELETE removed the rows del.
store_frame_embeddings(fs, del, video_id, n) ==
    (fs (-) del) (+) SetToBag(frames_data(video_id, n))

\* a key the payload of a message lacks
Missing == 0 - 1

\* process_message, lines 107-111: json.loads and the four subscripts
\* succeed.  A body that is not JSON has every key Missing.
parses(body) ==
    /\ body.job_id # Missing
    /\ body.video_id # Missing
    /\ body.s3_key # Missing

\* main, lines 237-255: the loop test passes, receive_message returns one
\* message (MAX_MESSAGES is 1) and the counter is reset.  A message stays in
\* the queue until delete_message; one that was received and not deleted is
\* delivered again after its visibility timeout, so it can be received at any
\* later poll.
receive(w, m) ==
    /\ pc[w] = "poll"
    /\ ~shutdown_flag[w]
    /\ m \in queue
    /\ message' = [message EXCEPT ![w] = m]
    /\ pc' = [pc EXCEPT ![w] = "start"]
    /\ success' = [success EXCEPT ![w] = "none"]
    /\ tmp_path' = [tmp_path EXCEPT ![w] = FALSE]
    /\ consecutive_errors' = [consecutive_errors EXCEPT ![w] = 0]
    /\ loop_errors' = [loop_errors EXCEPT ![w] = 0]
    /\ UNCHANGED <<store, api, search, sampler, nframes, deleted, shutdown_flag, exit_status,
                   restarts>>

\* str(e) of an exception caught by process_message (the text is not
\* followed, only that there is one)
ErrorText == "error"

\* process_message, lines 181-197, and main, lines 263-264: the except
\* branch (body.get('job_id') of a body without one is no job) and the count
\* of the failure; the locals of the attempt are gone on return and the
\* session is closed
pm_except(w, dbOk) ==
    /\ jobs' = update_job_status(jobs, message[w].job_id, FAILED,
                                 [error_message |-> ErrorText], dbOk)
    /\ success' = [success EXCEPT ![w] = "false"]
    /\ pc' = [pc EXCEPT ![w] = "poll"]
    /\ nframes' = [nframes EXCEPT ![w] = 0]
    /\ message' = [message EXCEPT ![w] = NoBody]
    /\ deleted' = [deleted EXCEPT ![w] = EmptyBag]
    /\ consecutive_errors' = [consecutive_errors EXCEPT ![w] = @ + 1]
    /\ UNCHANGED <<shutdown_flag, exit_status, loop_errors, restarts>>

\* main, lines 257-262, and process_message, lines 107-121: the flag is not
\* set, parse, transition to PROCESSING
pm_start(w, dbOk) ==
    /\ pc[w] = "start"
    /\ ~shutdown_flag[w]
    /\ IF parses(message[w])
       THEN /\ jobs' = update_job_status(jobs, message[w].job_id, PROCESSING,
                                         <<>>, dbOk)
            /\ pc' = [pc EXCEPT ![w] = "download"]
            /\ UNCHANGED <<attempt, loop>>
       ELSE /\ pm_except(w, dbOk)
            /\ UNCHANGED tmp_path
    /\ UNCHANGED <<videos, frames, blobs, queue, index, api, search, sampler>>

\* pm_download acknowledging the message when the download fails
pm_download_acks(w, s3Ok, opened, n, dbOk) ==
    /\ pc[w] = "download"
    /\ tmp_path' = [tmp_path EXCEPT ![w] = TRUE]
    /\ IF s3Ok /\ message[w].s3_key \in blobs /\ opened /\ n > 0
       THEN /\ nframes' = [nframes EXCEPT ![w] = n]
            /\ pc' = [pc EXCEPT ![w] = "store"]
            /\ UNCHANGED <<jobs, success, queue, message, deleted, loop>>
       ELSE /\ pm_except(w, dbOk)
            /\ queue' = queue \ {message[w]}
    /\ UNCHANGED <<videos, frames, blobs, index, api, search, sampler>>

\* process_message, lines 123-144: create the temporary file, download the
\* blob, extract_frames and generate_frame_embeddings.  s3Ok: download_file
\* succeeds; opened: the capture opens; n: frames sampled (np.vstack raises
\* on an empty list)
pm_download(w, s3Ok, opened, n, dbOk) ==
    /\ pc[w] = "download"
    /\ tmp_path' = [tmp_path EXCEPT ![w] = TRUE]
    /\ IF ~(s3Ok /\ message[w].s3_key \in blobs /\ opened /\ n > 0)
       THEN pm_except(w, dbOk)
       ELSE /\ nframes' = [nframes EXCEPT ![w] = n]
            /\ pc' = [pc EXCEPT ![w] = "store"]
            /\ UNCHANGED <<jobs, success, message, deleted, loop>>
    /\ UNCHANGED <<videos, frames, blobs, queue, index, api, search, sampler>>

\* set_duration writing the duration whether or not one is set
set_duration_always(vs, video_id, duration) ==
    [vs EXCEPT ![video_id].duration_seconds = duration]

\* process_message, lines 148-151: the video table after the duration of
\* the file was offered
set_duration(vs, video_id, duration) ==
    IF vs[video_id].duration_seconds = NoNum
    THEN [vs EXCEPT ![video_id].duration_seconds = duration]
    ELSE vs

\* store_frame_embeddings, line 79: the DELETE inside the transaction.  It
\* removes the committed rows of the video, and waits while another open
\* transaction holds rows of the video it has deleted.
pm_store_delete(w) ==
    /\ pc[w] = "store"
    /\ \A o \in DOMAIN pc \ {w} :
          FramesOf(message[w].video_id, deleted[o]) = EmptyBag
    /\ deleted' = [deleted EXCEPT ![w] = FramesOf(message[w].video_id, frames)]
    /\ pc' = [pc EXCEPT ![w] = "insert"]
    /\ UNCHANGED <<store, api, search, sampler, message, nframes, success, tmp_path, loop>>

\* process_message, lines 146-154: the insert and the commit of
\* store_frame_embeddings (the insert violates the foreign key of
\* video_frames when the video row is gone), set the duration once (the
\* duration read from the file stands as the number of frames), unlink the
\* file
pm_store(w, commitOk, dbOk) ==
    /\ pc[w] = "insert"
    /\ LET v == message[w].video_id
       IN  IF commitOk /\ v \in DOMAIN videos
           THEN /\ frames' = store_frame_embeddings(frames, deleted[w], v,
                                                    nframes[w])
                /\ videos' = set_duration(videos, v, nframes[w])
                /\ deleted' = [deleted EXCEPT ![w] = EmptyBag]
                /\ tmp_path' = [tmp_path EXCEPT ![w] = FALSE]
                /\ pc' = [pc EXCEPT ![w] = "complete"]
                /\ UNCHANGED <<jobs, success, nframes, message, loop>>
           ELSE /\ pm_except(w, dbOk)
                /\ UNCHANGED <<frames, videos, tmp_path>>
    /\ UNCHANGED <<blobs, queue, index, api, search, sampler>>

\* process_message, lines 156-166: transition to COMPLETED
pm_complete(w, dbOk) ==
    /\ pc[w] = "complete"
    /\ jobs' = update_job_status(jobs, message[w].job_id, COMPLETED, <<>>, dbOk)
    /\ pc' = [pc EXCEPT ![w] = "ack"]
    /\ UNCHANGED <<videos, frames, blobs, queue, index, api, search, sampler, attempt, loop>>

\* process_message, lines 173-179: delete_message, return True
pm_ack(w, sqsOk, dbOk) ==
    /\ pc[w] = "ack"
    /\ IF sqsOk
       THEN /\ queue' = queue \ {message[w]}
            /\ success' = [success EXCEPT ![w] = "true"]
            /\ pc' = [pc EXCEPT ![w] = "poll"]
            /\ nframes' = [nframes EXCEPT ![w] = 0]
            /\ message' = [message EXCEPT ![w] = NoBody]
            /\ UNCHANGED <<jobs, deleted, loop>>
       ELSE /\ pm_except(w, dbOk)
            /\ queue' = queue
    /\ UNCHANGED <<videos, frames, blobs, index, api, search, sampler, tmp_path>>

\* signal_handler: SIGTERM or SIGINT is delivered to the process
signal_handler(w) ==
    /\ pc[w] # "exit"
    /\ ~shutdown_flag[w]
    /\ shutdown_flag' = [shutdown_flag EXCEPT ![w] = TRUE]
    /\ UNCHANGED <<store, api, search, sampler, pc, attempt, consecutive_errors, exit_status,
                   loop_errors, restarts>>

\* main, lines 237 and 289-290: the loop test fails, sys.exit(0)
main_exit(w) ==
    /\ pc[w] = "poll"
    /\ shutdown_flag[w]
    /\ pc' = [pc EXCEPT ![w] = "exit"]
    /\ exit_status' = [exit_status EXCEPT ![w] = 0]
    /\ UNCHANGED <<store, api, search, sampler, attempt, consecutive_errors, shutdown_flag,
                   loop_errors, restarts>>

\* main, lines 258-260: the flag was set before the message was passed to
\* process_message; the message is left in the queue
main_break(w) ==
    /\ pc[w] = "start"
    /\ shutdown_flag[w]
    /\ pc' = [pc EXCEPT ![w] = "poll"]
    /\ message' = [message EXCEPT ![w] = NoBody]
    /\ UNCHANGED <<store, api, search, sampler, nframes, success, tmp_path, deleted, loop>>

\* main with the threshold compared by > instead of >=
poll_error_late(w) ==
    /\ pc[w] = "poll"
    /\ ~shutdown_flag[w]
    /\ consecutive_errors' = [consecutive_errors EXCEPT ![w] = @ + 1]
    /\ loop_errors' = [loop_errors EXCEPT ![w] = @ + 1]
    /\ IF consecutive_errors'[w] > max_consecutive_errors
       THEN /\ pc' = [pc EXCEPT ![w] = "exit"]
            /\ exit_status' = [exit_status EXCEPT ![w] = 1]
       ELSE UNCHANGED <<pc, exit_status>>
    /\ UNCHANGED <<store, api, search, sampler, attempt, shutdown_flag, restarts>>

\* main, lines 240-249 and 274-283: SessionLocal or receive_message raises
poll_error(w) ==
    /\ pc[w] = "poll"
    /\ ~shutdown_flag[w]
    /\ consecutive_errors' = [consecutive_errors EXCEPT ![w] = @ + 1]
    /\ loop_errors' = [loop_errors EXCEPT ![w] = @ + 1]
    /\ IF consecutive_errors'[w] >= max_consecutive_errors
       THEN /\ pc' = [pc EXCEPT ![w] = "exit"]
            /\ exit_status' = [exit_status EXCEPT ![w] = 1]
       ELSE UNCHANGED <<pc, exit_status>>
    /\ UNCHANGED <<store, api, search, sampler, attempt, shutdown_flag, restarts>>

\* main, lines 266-268: receive_message returns no message; the counter is
\* left as it is
poll_empty(w) ==
    /\ pc[w] = "poll"
    /\ ~shutdown_flag[w]
    /\ loop_errors' = [loop_errors EXCEPT ![w] = 0]
    /\ UNCHANGED <<store, api, search, sampler, pc, attempt, consecutive_errors, shutdown_flag,
                   exit_status, restarts>>

\* the worker process is killed at any point and started again (main from
\* its first line, health check passed): the open transaction is rolled
\* back by the database, the message it held stays in the queue, the
\* temporary file stays on disk
crash(w) ==
    /\ pc[w] # "exit"
    /\ restarts[w] < MaxCrashes
    /\ restarts' = [restarts EXCEPT ![w] = @ + 1]
    /\ pc' = [pc EXCEPT ![w] = "poll"]
    /\ message' = [message EXCEPT ![w] = NoBody]
    /\ nframes' = [nframes EXCEPT ![w] = 0]
    /\ success' = [success EXCEPT ![w] = "none"]
    /\ deleted' = [deleted EXCEPT ![w] = EmptyBag]
    /\ consecutive_errors' = [consecutive_errors EXCEPT ![w] = 0]
    /\ loop_errors' = [loop_errors EXCEPT ![w] = 0]
    /\ shutdown_flag' = [shutdown_flag EXCEPT ![w] = FALSE]
    /\ UNCHANGED <<store, api, search, sampler, tmp_path, exit_status>>

\* a producer other than upload_video and create_job sends a message whose
\* payload process_message cannot parse: one that is not JSON, or a JSON
\* object that names a job and lacks the other keys
send_foreign(body) ==
    /\ ~parses(body)
    /\ body \notin queue
    /\ queue' = queue \cup {body}
    /\ UNCHANGED <<videos, jobs, frames, blobs, index, api, worker, search, sampler>>

\* ------------------------------------------------------------------ search
\* app/api/search.py search_videos, from the answer of query_similar_frames
\* on.  A match of the pool is [frame_id, video_id, score]; scores and the
\* threshold are in hundredths.  video_results is the dict of the scan as
\* the sequence of its values in insertion order.

\* the builtins min and max on two numbers
min(a, b) == IF a <= b THEN a ELSE b
max(a, b) == IF a >= b THEN a ELSE b

\* line 60: the matches wanted
desired(rq) == rq.max_videos * rq.max_results_per_video

\* line 61 without the lower bound
top_k_for_no_floor(rq) ==
    min(desired(rq) * 5, 500)

\* line 61: the number of candidates asked of the index
top_k_for(rq) ==
    min(max(desired(rq) * 5, 50), 500)

\* lines 56-75: the query of the index, which holds no vector (nothing
\* calls upsert_embeddings) and answers with an empty list
search_query ==
    /\ search_pc = "query"
    /\ top_k' = top_k_for(request)
    /\ pinecone_matches' = <<>>
    /\ search_pc' = "start"
    /\ UNCHANGED <<request, video_results, cursor, response>>
    /\ UNCHANGED <<store, api, worker, sampler>>

\* a float that is a quotient of two integers
Quotient(num, den) == [num |-> num, den |-> den]
\* the literal 0.0
Zero == Quotient(0, 1)

RECURSIVE Sum(_)
Sum(xs) == IF xs = <<>> THEN 0 ELSE Head(xs) + Sum(Tail(xs))

RECURSIVE Concat(_)
Concat(xss) == IF xss = <<>> THEN <<>> ELSE Head(xss) \o Concat(Tail(xss))

\* line 86 with every candidate kept
filter_matches_keeps_all(matches, threshold) ==
    matches

\* line 86: the candidates at or above the threshold, in pool order
filter_matches(matches, threshold) ==
    SelectSeq(matches, LAMBDA m : m.score >= threshold)

filtered == filter_matches(pinecone_matches, request.threshold)

\* video_id in video_results, and the position of its group
HasGroup(vr, video_id) == \E g \in 1..Len(vr) : vr[g].video_id = video_id
GroupOf(vr, video_id) == CHOOSE g \in 1..Len(vr) : vr[g].video_id = video_id

\* lines 126-131 with the test of the groups left out
scan_break_at_max_videos(vr, rq) ==
    Len(vr) >= rq.max_videos

\* lines 126-131: max_videos groups exist and every group is full
scan_break(vr, rq) ==
    /\ Len(vr) >= rq.max_videos
    /\ \A g \in 1..Len(vr) :
          Len(vr[g].matches) >= rq.max_results_per_video

\* lines 92-131 with > for >= in the test of the per-video cap
scan_match_cap_off_by_one(vr, m, rq) ==
    IF m.video_id = None
    THEN [video_results |-> vr, break |-> FALSE]
    ELSE LET created == IF HasGroup(vr, m.video_id)
                        THEN vr
                        ELSE Append(vr, [video_id |-> m.video_id,
                                         matches |-> <<>>])
             g == GroupOf(created, m.video_id)
         IN  IF Len(created) >= rq.max_videos
                /\ ~HasGroup(created, m.video_id)
             THEN [video_results |-> created, break |-> FALSE]
             ELSE IF Len(created[g].matches) > rq.max_results_per_video
             THEN [video_results |-> created, break |-> FALSE]
             ELSE LET added ==
                          [created EXCEPT ![g].matches =
                              Append(@, [frame_id |-> m.frame_id,
                                         similarity_score |-> m.score])]
                  IN  [video_results |-> added,
                       break |-> scan_break(added, rq)]

\* lines 92-131, one iteration of the loop over filtered: the dict after
\* it, and whether the loop breaks
scan_match(vr, m, rq) ==
    IF m.video_id = None
    THEN [video_results |-> vr, break |-> FALSE]
    ELSE LET created == IF HasGroup(vr, m.video_id)
                        THEN vr
                        ELSE Append(vr, [video_id |-> m.video_id,
                                         matches |-> <<>>])
             g == GroupOf(created, m.video_id)
         IN  IF Len(created) >= rq.max_videos
                /\ ~HasGroup(created, m.video_id)
             THEN [video_results |-> created, break |-> FALSE]
             ELSE IF Len(created[g].matches) >= rq.max_results_per_video
             THEN [video_results |-> created, break |-> FALSE]
             ELSE LET added ==
                          [created EXCEPT ![g].matches =
                              Append(@, [frame_id |-> m.frame_id,
                                         similarity_score |-> m.score])]
                  IN  [video_results |-> added,
                       break |-> scan_break(added, rq)]

\* line 133 without the slice
results_of_all(vr, rq) ==
    vr

\* line 133: the first max_videos groups
results_of(vr, rq) ==
    SubSeq(vr, 1, IF Len(vr) < rq.max_videos THEN Len(vr) ELSE rq.max_videos)

\* the similarity scores of the matches of the groups rs, group by group
scores_of(rs) ==
    Concat([g \in 1..Len(rs) |->
              [k \in 1..Len(rs[g].matches) |->
                  rs[g].matches[k].similarity_score]])

\* lines 135-153 with the aggregates taken over the whole dict
search_response_of_all(vr, rq) ==
    LET results == results_of(vr, rq)
        total_matches == Sum([g \in 1..Len(vr) |-> Len(vr[g].matches)])
    IN  [total_videos |-> Len(results),
         total_matches |-> total_matches,
         results |-> results,
         average_similarity |->
             IF total_matches > 0
             THEN Quotient(Sum(scores_of(vr)), Len(scores_of(vr)))
             ELSE Zero]

\* lines 133-153: the response built from the dict of the scan
search_response(vr, rq) ==
    LET results == results_of(vr, rq)
        total_matches == Sum([g \in 1..Len(results) |->
                                 Len(results[g].matches)])
    IN  [total_videos |-> Len(results),
         total_matches |-> total_matches,
         results |-> results,
         average_similarity |->
             IF total_matches > 0
             THEN Quotient(Sum(scores_of(results)), Len(scores_of(results)))
             ELSE Zero]

\* lines 77-84 with the average taken as the mean of the empty list
search_begin_mean_of_nothing ==
    /\ search_pc = "start"
    /\ IF pinecone_matches = <<>>
       THEN /\ response' = [total_videos |-> 0, total_matches |-> 0,
                            results |-> <<>>,
                            average_similarity |-> Quotient(0, 0)]
            /\ search_pc' = "done"
       ELSE /\ search_pc' = "scan"
            /\ UNCHANGED response
    /\ UNCHANGED <<request, pinecone_matches, video_results, cursor>>
    /\ UNCHANGED <<store, api, worker, sampler, top_k>>

\* lines 77-90: the answer to an empty pool, or the start of the scan
search_begin ==
    /\ search_pc = "start"
    /\ IF pinecone_matches = <<>>
       THEN /\ response' = [total_videos |-> 0, total_matches |-> 0,
                            results |-> <<>>, average_similarity |-> Zero]
            /\ search_pc' = "done"
       ELSE /\ search_pc' = "scan"
            /\ UNCHANGED response
    /\ UNCHANGED <<request, pinecone_matches, video_results, cursor>>
    /\ UNCHANGED <<store, api, worker, sampler, top_k>>

\* lines 91-131: one iteration of the loop
search_scan ==
    /\ search_pc = "scan"
    /\ cursor < Len(filtered)
    /\ LET step == scan_match(video_results, filtered[cursor + 1], request)
       IN  /\ video_results' = step.video_results
           /\ search_pc' = IF step.break THEN "respond" ELSE "scan"
    /\ cursor' = cursor + 1
    /\ UNCHANGED <<request, pinecone_matches, response>>
    /\ UNCHANGED <<store, api, worker, sampler, top_k>>

\* lines 133-153, after the break or the end of the list
search_respond ==
    /\ \/ search_pc = "respond"
       \/ search_pc = "scan" /\ cursor = Len(filtered)
    /\ response' = search_response(video_results, request)
    /\ search_pc' = "done"
    /\ UNCHANGED <<request, pinecone_matches, video_results, cursor>>
    /\ UNCHANGED <<store, api, worker, sampler, top_k>>

\* ----------------------------------------------------------------- sampler
\* worker/video_analyzer.py extract_frames on a capture that opened.  The
\* capture decodes cap.frames frames and reports cap.fps; a frame is stood
\* for by its position in the file.

\* line 50: the timestamp of the frame at position n
timestamp_of(n, fps) ==
    IF fps > 0 THEN Quotient(n, fps) ELSE Quotient(n, 1)

\* lines 43-52 with every frame read kept
extract_read_every_frame ==
    /\ extract_pc = "read"
    /\ frame_count < cap.frames
    /\ sampled' = Append(sampled, frame_count)
    /\ timestamps' = Append(timestamps, timestamp_of(frame_count, cap.fps))
    /\ frame_count' = frame_count + 1
    /\ UNCHANGED <<cap, sample_rate, extract_pc>>
    /\ UNCHANGED <<store, api, worker, search>>

\* lines 43-52: one iteration of the loop, cap.read() gave a frame
extract_read ==
    /\ extract_pc = "read"
    /\ frame_count < cap.frames
    /\ IF frame_count % sample_rate = 0
       THEN /\ sampled' = Append(sampled, frame_count)
            /\ timestamps' = Append(timestamps,
                                    timestamp_of(frame_count, cap.fps))
       ELSE UNCHANGED <<sampled, timestamps>>
    /\ frame_count' = frame_count + 1
    /\ UNCHANGED <<cap, sample_rate, extract_pc>>
    /\ UNCHANGED <<store, api, worker, search>>

\* lines 43-65: cap.read() gave no frame, extract_frames returns
extract_return ==
    /\ extract_pc = "read"
    /\ frame_count = cap.frames
    /\ extract_pc' = "returned"
    /\ UNCHANGED <<cap, sample_rate, frame_count, sampled, timestamps>>
    /\ UNCHANGED <<store, api, worker, search>>

\* ----------------------------------------------------------- specification
VideoIds == 1..MaxVideos
JobIds   == 1..MaxJobs

Next ==
    \/ \E valid, s3Ok, sqsOk \in BOOLEAN :
          /\ nextVideo < MaxVideos
          /\ nextJob < MaxJobs
          /\ upload_video(valid, s3Ok, sqsOk)
    \/ \E v \in VideoIds, dbOk \in BOOLEAN : create_job_begin(v, dbOk)
    \/ \E sqsOk, dbOk \in BOOLEAN : create_job_send(sqsOk, dbOk)
    \/ \E j \in JobIds, dbOk \in BOOLEAN : delete_job(j, dbOk)
    \/ \E v \in VideoIds, pineconeOk, s3Ok, dbOk \in BOOLEAN :
          delete_video(v, pineconeOk, s3Ok, dbOk)
    \/ \E w \in Workers, m \in queue : receive(w, m)
    \/ \E w \in Workers, dbOk \in BOOLEAN : pm_start(w, dbOk)
    \/ \E w \in Workers, s3Ok, opened, dbOk \in BOOLEAN, n \in 0..MaxFrames :
          pm_download(w, s3Ok, opened, n, dbOk)
    \/ \E w \in Workers : pm_store_delete(w)
    \/ \E w \in Workers, commitOk, dbOk \in BOOLEAN : pm_store(w, commitOk, dbOk)
    \/ \E w \in Workers, dbOk \in BOOLEAN : pm_complete(w, dbOk)
    \/ \E w \in Workers, sqsOk, dbOk \in BOOLEAN : pm_ack(w, sqsOk, dbOk)

Spec == Init /\ [][Next]_vars

\* the worker's main loop under signals and failing polls, fed by uploads
NextMain ==
    \/ \E valid, s3Ok, sqsOk \in BOOLEAN :
          /\ nextVideo < MaxVideos
          /\ nextJob < MaxJobs
          /\ upload_video(valid, s3Ok, sqsOk)
    \/ \E w \in Workers, m \in queue : receive(w, m)
    \/ \E w \in Workers, dbOk \in BOOLEAN : pm_start(w, dbOk)
    \/ \E w \in Workers, s3Ok, opened, dbOk \in BOOLEAN, n \in 0..MaxFrames :
          pm_download(w, s3Ok, opened, n, dbOk)
    \/ \E w \in Workers : pm_store_delete(w)
    \/ \E w \in Workers, commitOk, dbOk \in BOOLEAN : pm_store(w, commitOk, dbOk)
    \/ \E w \in Workers, dbOk \in BOOLEAN : pm_complete(w, dbOk)
    \/ \E w \in Workers, sqsOk, dbOk \in BOOLEAN : pm_ack(w, sqsOk, dbOk)
    \/ \E w \in Workers : signal_handler(w)
    \/ \E w \in Workers : main_exit(w)
    \/ \E w \in Workers : main_break(w)
    \/ \E w \in Workers : poll_error(w)
    \/ \E w \in Workers : poll_empty(w)

SpecMain == Init /\ [][NextMain]_vars

\* the worker under process kills, fed by uploads
NextFaults ==
    \/ \E valid, s3Ok, sqsOk \in BOOLEAN :
          /\ nextVideo < MaxVideos
          /\ nextJob < MaxJobs
          /\ upload_video(valid, s3Ok, sqsOk)
    \/ \E w \in Workers, m \in queue : receive(w, m)
    \/ \E w \in Workers, dbOk \in BOOLEAN : pm_start(w, dbOk)
    \/ \E w \in Workers, s3Ok, opened, dbOk \in BOOLEAN, n \in 0..MaxFrames :
          pm_download(w, s3Ok, opened, n, dbOk)
    \/ \E w \in Workers : pm_store_delete(w)
    \/ \E w \in Workers, commitOk, dbOk \in BOOLEAN : pm_store(w, commitOk, dbOk)
    \/ \E w \in Workers, dbOk \in BOOLEAN : pm_complete(w, dbOk)
    \/ \E w \in Workers, sqsOk, dbOk \in BOOLEAN : pm_ack(w, sqsOk, dbOk)
    \/ \E w \in Workers : crash(w)

SpecFaults == Init /\ [][NextFaults]_vars

\* payloads a foreign producer can send
ForeignBodies ==
    {Body(j, Missing, Missing) : j \in JobIds \cup {Missing}}

\* the worker on a queue that foreign producers write to as well
NextForeign ==
    \/ \E valid, s3Ok, sqsOk \in BOOLEAN :
          /\ nextVideo < MaxVideos
          /\ nextJob < MaxJobs
          /\ upload_video(valid, s3Ok, sqsOk)
    \/ \E body \in ForeignBodies : send_foreign(body)
    \/ \E w \in Workers, m \in queue : receive(w, m)
    \/ \E w \in Workers, dbOk \in BOOLEAN : pm_start(w, dbOk)
    \/ \E w \in Workers, s3Ok, opened, dbOk \in BOOLEAN, n \in 0..MaxFrames :
          pm_download(w, s3Ok, opened, n, dbOk)
    \/ \E w \in Workers : pm_store_delete(w)
    \/ \E w \in Workers, commitOk, dbOk \in BOOLEAN : pm_store(w, commitOk, dbOk)
    \/ \E w \in Workers, dbOk \in BOOLEAN : pm_complete(w, dbOk)
    \/ \E w \in Workers, sqsOk, dbOk \in BOOLEAN : pm_ack(w, sqsOk, dbOk)

SpecForeign == Init /\ [][NextForeign]_vars

\* two worker processes on the same queue, fed by uploads
\* uploads alone, up to the configured limit of stored videos
NextLimit ==
    \/ \E valid, s3Ok, sqsOk \in BOOLEAN : upload_video(valid, s3Ok, sqsOk)

SpecLimit == Init /\ [][NextLimit]_vars

\* the inputs of the ranker
PoolVideos == {"A", "B", "C"}
Scores     == {30, 80, 85, 90}
Thresholds == {0, 50, 85, 100}
Pools ==
    UNION {[1..n -> PoolVideos \X Scores] : n \in 0..MaxPool}

\* one search request and the pool the index answered it with
InitRank ==
    /\ videos = <<>>
    /\ jobs = <<>>
    /\ frames = EmptyBag
    /\ blobs = {}
    /\ queue = {}
    /\ index = {}
    /\ nextVideo = 0
    /\ nextJob = 0
    /\ req = NoBody
    /\ uploading = 0
    /\ pc = [w \in Workers |-> "poll"]
    /\ message = [w \in Workers |-> NoBody]
    /\ nframes = [w \in Workers |-> 0]
    /\ success = [w \in Workers |-> "none"]
    /\ tmp_path = [w \in Workers |-> FALSE]
    /\ deleted = [w \in Workers |-> EmptyBag]
    /\ consecutive_errors = [w \in Workers |-> 0]
    /\ shutdown_flag = [w \in Workers |-> FALSE]
    /\ exit_status = [w \in Workers |-> NoNum]
    /\ loop_errors = [w \in Workers |-> 0]
    /\ restarts = [w \in Workers |-> 0]
    /\ request \in [threshold : Thresholds,
                    max_results_per_video : 1..MaxCap,
                    max_videos : 1..MaxCap]
    /\ \E pool \in Pools :
          pinecone_matches =
              [k \in DOMAIN pool |-> [frame_id |-> k,
                                      video_id |-> pool[k][1],
                                      score |-> pool[k][2]]]
    /\ video_results = <<>>
    /\ cursor = 0
    /\ response = None
    /\ search_pc = "start"
    /\ top_k = top_k_for(request)
    /\ NoSampler

NextRank ==
    \/ search_begin
    \/ search_scan
    \/ search_respond

SpecRank == InitRank /\ [][NextRank]_vars

\* one search request of any size the schema admits, before the query
InitQuery ==
    /\ videos = <<>>
    /\ jobs = <<>>
    /\ frames = EmptyBag
    /\ blobs = {}
    /\ queue = {}
    /\ index = {}
    /\ nextVideo = 0
    /\ nextJob = 0
    /\ req = NoBody
    /\ uploading = 0
    /\ pc = [w \in Workers |-> "poll"]
    /\ message = [w \in Workers |-> NoBody]
    /\ nframes = [w \in Workers |-> 0]
    /\ success = [w \in Workers |-> "none"]
    /\ tmp_path = [w \in Workers |-> FALSE]
    /\ deleted = [w \in Workers |-> EmptyBag]
    /\ consecutive_errors = [w \in Workers |-> 0]
    /\ shutdown_flag = [w \in Workers |-> FALSE]
    /\ exit_status = [w \in Workers |-> NoNum]
    /\ loop_errors = [w \in Workers |-> 0]
    /\ restarts = [w \in Workers |-> 0]
    /\ request \in [threshold : Thresholds,
                    max_results_per_video : 1..max_results_per_video_le,
                    max_videos : 1..max_videos_le]
    /\ pinecone_matches = <<>>
    /\ video_results = <<>>
    /\ cursor = 0
    /\ response = None
    /\ search_pc = "query"
    /\ top_k = 0
    /\ NoSampler

NextQuery ==
    \/ search_query
    \/ search_begin

SpecQuery == InitQuery /\ [][NextQuery]_vars

\* the frame rates a capture reports; 0 when it reports none
Fps == {0, 25, 30}

\* one video file and the stride it is sampled with
InitSampler ==
    /\ videos = <<>>
    /\ jobs = <<>>
    /\ frames = EmptyBag
    /\ blobs = {}
    /\ queue = {}
    /\ index = {}
    /\ nextVideo = 0
    /\ nextJob = 0
    /\ req = NoBody
    /\ uploading = 0
    /\ pc = [w \in Workers |-> "poll"]
    /\ message = [w \in Workers |-> NoBody]
    /\ nframes = [w \in Workers |-> 0]
    /\ success = [w \in Workers |-> "none"]
    /\ tmp_path = [w \in Workers |-> FALSE]
    /\ deleted = [w \in Workers |-> EmptyBag]
    /\ consecutive_errors = [w \in Workers |-> 0]
    /\ shutdown_flag = [w \in Workers |-> FALSE]
    /\ exit_status = [w \in Workers |-> NoNum]
    /\ loop_errors = [w \in Workers |-> 0]
    /\ restarts = [w \in Workers |-> 0]
    /\ NoSearch
    /\ cap \in [frames : 0..MaxDecoded, fps : Fps]
    /\ sample_rate \in 1..MaxStride
    /\ frame_count = 0
    /\ sampled = <<>>
    /\ timestamps = <<>>
    /\ extract_pc = "read"

\* the worker on the uploaded file, with len(frames) taken from the sampler
NextSampler ==
    \/ \E valid, s3Ok, sqsOk \in BOOLEAN :
          /\ nextVideo < MaxVideos
          /\ nextJob < MaxJobs
          /\ upload_video(valid, s3Ok, sqsOk)
    \/ extract_read
    \/ extract_return
    \/ \E w \in Workers, m \in queue : receive(w, m)
    \/ \E w \in Workers, dbOk \in BOOLEAN : pm_start(w, dbOk)
    \/ \E w \in Workers, s3Ok, opened, dbOk \in BOOLEAN :
          /\ extract_pc = "returned"
          /\ pm_download(w, s3Ok, opened, Len(sampled), dbOk)
    \/ \E w \in Workers : pm_store_delete(w)
    \/ \E w \in Workers, commitOk, dbOk \in BOOLEAN : pm_store(w, commitOk, dbOk)
    \/ \E w \in Workers, dbOk \in BOOLEAN : pm_complete(w, dbOk)
    \/ \E w \in Workers, sqsOk, dbOk \in BOOLEAN : pm_ack(w, sqsOk, dbOk)

SpecSampler == InitSampler /\ [][NextSampler]_vars

\* upload requests that overlap at their 'await'
NextUploads ==
    \/ \E valid \in BOOLEAN :
          /\ uploading < MaxUploading
          /\ upload_video_begin(valid)
    \/ \E s3Ok, sqsOk \in BOOLEAN : upload_video_finish(s3Ok, sqsOk)

SpecUploads == Init /\ [][NextUploads]_vars

Workers2 == {"w1", "w2"}

InitDup ==
    /\ videos = <<>>
    /\ jobs = <<>>
    /\ frames = EmptyBag
    /\ blobs = {}
    /\ queue = {}
    /\ index = {}
    /\ nextVideo = 0
    /\ nextJob = 0
    /\ req = NoBody
    /\ uploading = 0
    /\ pc = [w \in Workers2 |-> "poll"]
    /\ message = [w \in Workers2 |-> NoBody]
    /\ nframes = [w \in Workers2 |-> 0]
    /\ success = [w \in Workers2 |-> "none"]
    /\ tmp_path = [w \in Workers2 |-> FALSE]
    /\ deleted = [w \in Workers2 |-> EmptyBag]
    /\ consecutive_errors = [w \in Workers2 |-> 0]
    /\ shutdown_flag = [w \in Workers2 |-> FALSE]
    /\ exit_status = [w \in Workers2 |-> NoNum]
    /\ loop_errors = [w \in Workers2 |-> 0]
    /\ restarts = [w \in Workers2 |-> 0]
    /\ NoSearch
    /\ NoSampler

NextDup ==
    \/ \E valid, s3Ok, sqsOk \in BOOLEAN :
          /\ nextVideo < MaxVideos
          /\ nextJob < MaxJobs
          /\ upload_video(valid, s3Ok, sqsOk)
    \/ \E w \in Workers2, m \in queue : receive(w, m)
    \/ \E w \in Workers2, dbOk \in BOOLEAN : pm_start(w, dbOk)
    \/ \E w \in Workers2, s3Ok, opened, dbOk \in BOOLEAN, n \in 0..MaxFrames :
          pm_download(w, s3Ok, opened, n, dbOk)
    \/ \E w \in Workers2 : pm_store_delete(w)
    \/ \E w \in Workers2, commitOk, dbOk \in BOOLEAN : pm_store(w, commitOk, dbOk)
    \/ \E w \in Workers2, dbOk \in BOOLEAN : pm_complete(w, dbOk)
    \/ \E w \in Workers2, sqsOk, dbOk \in BOOLEAN : pm_ack(w, sqsOk, dbOk)

SpecDup == InitDup /\ [][NextDup]_vars

\* ------------------------------------------------------------------ claims
Terminal == {COMPLETED, FAILED}

\* the frame rows of one run that sampled n frames: indexes 0..n-1, each once
Generation(video_id, n) ==
    [f \in {[video_id |-> video_id, frame_index |-> i] : i \in 0..(n - 1)} |-> 1]

\* a step of process_message that leaves through the except branch
Raised(w) ==
    /\ pc[w] \in {"start", "download", "store", "insert", "complete"}
    /\ pc'[w] = "poll"

\* process_message returns False
AttemptFails(w) ==
    /\ pc[w] # "poll"
    /\ pc'[w] = "poll"
    /\ success'[w] = "false"

\* a step taken by the queue worker
WorkerStep == \E w \in Workers : pc'[w] # pc[w]

\* C1: a job's status never leaves COMPLETED or FAILED and never goes back
\* to an earlier state of PENDING, PROCESSING, {COMPLETED, FAILED}.
C1_StatusMonotone ==
    [][\A j \in DOMAIN jobs \cap DOMAIN jobs' :
          /\ jobs[j].status \in Terminal => jobs'[j].status = jobs[j].status
          /\ jobs[j].status = PROCESSING => jobs'[j].status # PENDING]_vars

\* C2: the frame rows of a video are always the rows of one run, indexes
\* 0..n-1 once each; after a run has stored its n rows they are exactly the
\* rows of the video, whatever earlier runs had stored.
C2_OneGeneration ==
    /\ \A v \in VideoIds :
          \E n \in 0..MaxFrames : FramesOf(v, frames) = Generation(v, n)
    /\ \A w \in Workers :
          (pc[w] \in {"complete", "ack"}
              /\ message[w].video_id \in DOMAIN videos)
          => FramesOf(message[w].video_id, frames)
                = Generation(message[w].video_id, nframes[w])

\* C2 witness: a second run has stored its rows for a video whose duration
\* was set by an earlier run that sampled a different number of frames.
C2_Witness ==
    \E w \in Workers :
        /\ pc[w] = "complete"
        /\ BagCardinality(FramesOf(message[w].video_id, frames)) = nframes[w]
        /\ message[w].video_id \in DOMAIN videos
        /\ videos[message[w].video_id].duration_seconds # nframes[w]

\* C3: once an attempt has moved its job to COMPLETED, the vector index
\* holds exactly one vector per frame row of the video.
C3_IndexMirrorsFrames ==
    \A w \in Workers :
        pc[w] = "ack" =>
            VectorsOf(message[w].video_id, index) =
                BagToSet(FramesOf(message[w].video_id, frames))

\* C4: when a step between the transition to PROCESSING and the transition
\* to COMPLETED raises, the message is still in the queue afterwards and the
\* worker is back at its poll.
C4_FailedMessageKept ==
    [][\A w \in Workers :
          Raised(w) => /\ message[w] \in queue'
                       /\ success'[w] = "false"
                       /\ pc'[w] = "poll"]_vars

\* C4 witness: after a failed attempt a job is FAILED and its message is in
\* the queue, ready to be received again.
C4_Witness ==
    \E w \in Workers :
        /\ pc[w] = "poll"
        /\ success[w] = "false"
        /\ \E m \in queue :
              /\ m.job_id \in DOMAIN jobs
              /\ jobs[m.job_id].status = FAILED
              /\ jobs[m.job_id].error_message = ErrorText

\* C5: a failed attempt leaves the job it refers to FAILED with an error
\* message.
C5_FailureMarksJobFailed ==
    [][\A w \in Workers :
          (AttemptFails(w) /\ message[w].job_id \in DOMAIN jobs')
          => /\ jobs'[message[w].job_id].status = FAILED
             /\ jobs'[message[w].job_id].error_message # None]_vars

\* C6: whenever a message leaves the queue, the job it refers to has status
\* COMPLETED.
C6_AckOnlyAfterCompleted ==
    [][\A m \in queue :
          (m \notin queue' /\ m.job_id \in DOMAIN jobs)
          => jobs[m.job_id].status = COMPLETED]_vars

\* C7: when an attempt finishes, its job is COMPLETED if process_message
\* returns True and FAILED if it returns False.
C7_StatusOfLastAttempt ==
    [][\A w \in Workers :
          (pc[w] # "poll" /\ pc'[w] = "poll"
              /\ message[w].job_id \in DOMAIN jobs')
          => jobs'[message[w].job_id].status =
                (IF success'[w] = "true" THEN COMPLETED ELSE FAILED)]_vars

\* C8 as stated: a delete request for a PENDING or PROCESSING job is refused
\* and changes nothing; a delete request for a COMPLETED or FAILED job
\* succeeds and removes the job.
C8_DeleteGuard_Original ==
    \A j \in DOMAIN jobs, dbOk \in BOOLEAN :
        IF jobs[j].status \in {PENDING, PROCESSING}
        THEN /\ delete_job_status(j, dbOk) = 400
             /\ delete_job_rows(jobs, j, dbOk) = jobs
        ELSE /\ delete_job_status(j, dbOk) = 204
             /\ delete_job_rows(jobs, j, dbOk) = Without(jobs, {j})

\* C8 amended: a delete request for a PENDING or PROCESSING job is refused
\* with 400 and changes nothing; a delete request for a COMPLETED or FAILED
\* job removes it with 204, unless the database delete raises: then the
\* answer is 500 and the job stays.
C8_DeleteGuard ==
    \A j \in DOMAIN jobs, dbOk \in BOOLEAN :
        IF jobs[j].status \in {PENDING, PROCESSING}
        THEN /\ delete_job_status(j, dbOk) = 400
             /\ delete_job_rows(jobs, j, dbOk) = jobs
        ELSE IF dbOk
        THEN /\ delete_job_status(j, dbOk) = 204
             /\ delete_job_rows(jobs, j, dbOk) = Without(jobs, {j})
        ELSE /\ delete_job_status(j, dbOk) = 500
             /\ delete_job_rows(jobs, j, dbOk) = jobs

\* C8 witness: delete_job has removed a job (no video was ever deleted, so
\* delete_video did not remove it) next to a job that is still PROCESSING.
C8_Witness ==
    /\ \E j \in 1..nextJob : j \notin DOMAIN jobs
    /\ \A v \in 1..nextVideo : v \in DOMAIN videos
    /\ \E j \in DOMAIN jobs : jobs[j].status = PROCESSING

\* C9: no step removes a job whose status is PENDING or PROCESSING.
C9_NoDeleteWhileActive ==
    [][\A j \in DOMAIN jobs :
          j \notin DOMAIN jobs' => jobs[j].status \in Terminal]_vars

\* C10 as stated: only a worker step changes the status of an existing job.
C10_SingleWriter_Original ==
    [][\A j \in DOMAIN jobs \cap DOMAIN jobs' :
          jobs'[j].status # jobs[j].status => WorkerStep]_vars

\* C10 amended: only a worker step changes the status of an existing job,
\* except that create_job marks the job it has just created FAILED when
\* its enqueue fails.
C10_SingleWriter ==
    [][\A j \in DOMAIN jobs \cap DOMAIN jobs' :
          jobs'[j].status # jobs[j].status =>
              \/ WorkerStep
              \/ /\ req.job_id = j
                 /\ req' = NoBody
                 /\ req \notin queue'
                 /\ jobs[j].status = PENDING
                 /\ jobs'[j].status = FAILED]_vars

\* C10 witness: create_job has marked its job FAILED after a failed enqueue.
C10_Witness ==
    \E j \in DOMAIN jobs :
        /\ jobs[j].status = FAILED
        /\ jobs[j].error_message = "SQS enqueue failed"
        /\ \A m \in queue : m.job_id # j

\* process_message returns (the process is not killed)
Returns(w) ==
    /\ pc[w] \notin {"poll", "exit"}
    /\ pc'[w] = "poll"
    /\ restarts'[w] = restarts[w]
    /\ ~(pc[w] = "start" /\ shutdown_flag[w])

\* C11: once the worker has handled a message whose payload does not parse,
\* the message is no longer in the queue.
C11_MalformedNotRedelivered ==
    [][\A w \in Workers :
          (Returns(w) /\ ~parses(message[w])) => message[w] \notin queue']_vars

\* C12: whenever process_message returns, the temporary file it created does
\* not exist.
C12_TempFileRemoved ==
    [][\A w \in Workers : Returns(w) => ~tmp_path'[w]]_vars

\* the rows of video v are those of one run: no index twice, no gap below
\* an index
OneRun(v) ==
    \A f \in DOMAIN FramesOf(v, frames) :
        /\ frames[f] = 1
        /\ \A i \in 0..f.frame_index :
              [video_id |-> v, frame_index |-> i] \in DOMAIN frames

\* C13: with the worker process killed at any point and the message
\* delivered again, the rows of a video are at every moment those of one
\* run, and a run that has stored its rows leaves exactly its own.
C13_CrashRedeliverySafe ==
    \A v \in VideoIds :
        /\ OneRun(v)
        /\ \A w \in Workers :
              (pc[w] \in {"complete", "ack"} /\ message[w].video_id = v
                  /\ v \in DOMAIN videos)
              => BagCardinality(FramesOf(v, frames)) = nframes[w]

\* C13 witness: after a kill of the process, a run has completed on a video
\* for which an earlier run had stored a different number of rows.
C13_Witness ==
    \E w \in Workers :
        /\ restarts[w] > 0
        /\ pc[w] = "ack"
        /\ message[w].video_id \in DOMAIN videos
        /\ BagCardinality(FramesOf(message[w].video_id, frames)) = nframes[w]
        /\ videos[message[w].video_id].duration_seconds # nframes[w]

\* C14: when two workers have processed messages for the same video at
\* overlapping times and both have finished, the rows of the video are those
\* of a single run.
C14_DuplicateProcessingSafe ==
    (\A w \in DOMAIN pc : pc[w] = "poll")
    => \A v \in VideoIds :
          \E n \in 0..MaxFrames : FramesOf(v, frames) = Generation(v, n)

\* positions of process_message after the message was passed to it
Processing == {"download", "store", "insert", "complete", "ack"}

\* C15: with the shutdown flag set while a message is being processed, the
\* worker goes on with that message until process_message returns, leaving
\* the job COMPLETED or FAILED; from its poll position it then receives
\* nothing more and exits with status 0.
C15_CooperativeShutdown ==
    [][\A w \in Workers :
          /\ (shutdown_flag[w] /\ pc[w] \in Processing)
             => /\ pc'[w] \in Processing \cup {"poll"}
                /\ (pc'[w] = "poll" /\ message[w].job_id \in DOMAIN jobs')
                   => jobs'[message[w].job_id].status \in Terminal
          /\ (shutdown_flag[w] /\ pc[w] = "poll")
             => /\ pc'[w] \in {"poll", "exit"}
                /\ pc'[w] = "exit" => exit_status'[w] = 0]_vars

\* C16: after max_consecutive_errors poll cycles in a row have raised, the
\* worker has exited with status 1.
C16_ExitAfterThreshold ==
    \A w \in Workers :
        loop_errors[w] >= max_consecutive_errors
        => pc[w] = "exit" /\ exit_status[w] = 1

\* C16 witness: the worker has exited with status 1 on the last of
\* max_consecutive_errors failing poll cycles in a row.
C16_Witness ==
    \E w \in Workers :
        /\ loop_errors[w] = max_consecutive_errors
        /\ exit_status[w] = 1

\* C17: the worker exits with a non-zero status only when
\* max_consecutive_errors poll cycles in a row have raised.
C17_OnlyLoopErrorsCount ==
    \A w \in Workers :
        (exit_status[w] # NoNum /\ exit_status[w] # 0)
        => loop_errors[w] >= max_consecutive_errors

\* C18: a step of the worker on a message whose job is not in the job table
\* leaves the table as it is, update_job_status answers None whether or not
\* the database works, and the worker goes on.
C18_MissingJobNoOp ==
    [][\A w \in Workers :
          (pc[w] \notin {"poll", "exit"} /\ pc'[w] # pc[w]
              /\ message[w].job_id \notin DOMAIN jobs)
          => /\ jobs' = jobs
             /\ pc'[w] # "exit"
             /\ \A dbOk \in BOOLEAN :
                   update_job_status_returns(jobs, message[w].job_id, dbOk) = None]_vars

\* C18 witness: the worker has asked for the transition to PROCESSING of a
\* job that was deleted after its message was sent, and goes on.
C18_Witness ==
    \E w \in Workers :
        /\ pc[w] = "download"
        /\ message[w].job_id \in 1..nextJob
        /\ message[w].job_id \notin DOMAIN jobs

\* C19: a job with an error message has status FAILED.
C19_ErrorOnlyOnFailed ==
    \A j \in DOMAIN jobs :
        jobs[j].error_message # None => jobs[j].status = FAILED

\* C20: once a video has a duration, no step changes it.
C20_DurationSetOnce ==
    [][\A v \in DOMAIN videos \cap DOMAIN videos' :
          videos[v].duration_seconds # NoNum
          => videos'[v].duration_seconds = videos[v].duration_seconds]_vars

\* C20 witness: a video keeps the duration of its first run after a later
\* run, which sampled a different number of frames, has stored its rows.
C20_Witness ==
    \E v \in DOMAIN videos :
        /\ videos[v].duration_seconds # NoNum
        /\ BagCardinality(FramesOf(v, frames)) \notin
              {0, videos[v].duration_seconds}

\* C21: a step that deletes a video leaves no frame row, no vector and no
\* queued message of that video.
C21_DeleteVideoCascades ==
    [][\A v \in DOMAIN videos :
          v \notin DOMAIN videos'
          => /\ FramesOf(v, frames') = EmptyBag
             /\ VectorsOf(v, index') = {}
             /\ \A m \in queue' : m.video_id # v]_vars

\* C22: when the number of stored videos is at or above the limit, no upload,
\* whatever its file and whatever the answers of S3 and SQS, stores a blob,
\* creates a video or a job row, or enqueues a message.
C22_LimitFailsFast ==
    check_video_limit
    => ~ ENABLED (\E valid, s3Ok, sqsOk \in BOOLEAN :
                    /\ upload_video(valid, s3Ok, sqsOk)
                    /\ <<store, api>>' # <<store, api>>)

\* C22 witness: the limit is reached with the blob of every stored video in
\* the bucket, and the upload endpoint is called.
C22_Witness ==
    /\ check_video_limit
    /\ Cardinality(blobs) = Cardinality(DOMAIN videos)
    /\ ENABLED (\E valid, s3Ok, sqsOk \in BOOLEAN :
                   upload_video(valid, s3Ok, sqsOk))

\* the candidates of video_id in the filtered list
CandidatesOf(video_id) ==
    SelectSeq(filtered, LAMBDA m : m.video_id = video_id)

\* C23: the response has at most max_videos groups, and each of its groups
\* has at most max_results_per_video matches.
C23_CapInvariant ==
    search_pc = "done"
    => /\ Len(response.results) <= request.max_videos
       /\ \A g \in 1..Len(response.results) :
             Len(response.results[g].matches) <= request.max_results_per_video

\* C23 witness: a response at both caps, from a pool with more videos at or
\* above the threshold than max_videos and more candidates of a returned
\* video than max_results_per_video.
C23_Witness ==
    /\ search_pc = "done"
    /\ Len(response.results) = request.max_videos
    /\ Cardinality({filtered[k].video_id : k \in 1..Len(filtered)})
          > request.max_videos
    /\ \E g \in 1..Len(response.results) :
          /\ Len(response.results[g].matches) = request.max_results_per_video
          /\ Len(CandidatesOf(response.results[g].video_id))
                > request.max_results_per_video

\* C24: no match of the response has a similarity score below the threshold
\* of the request.
C24_ThresholdInvariant ==
    search_pc = "done"
    => \A g \in 1..Len(response.results) :
          \A k \in 1..Len(response.results[g].matches) :
             response.results[g].matches[k].similarity_score
                >= request.threshold

\* C24 witness: the response holds a match exactly at the threshold, and the
\* pool held a candidate of a returned video below it.
C24_Witness ==
    /\ search_pc = "done"
    /\ \E g \in 1..Len(response.results) :
          /\ \E k \in 1..Len(response.results[g].matches) :
                response.results[g].matches[k].similarity_score
                   = request.threshold
          /\ \E k \in 1..Len(pinecone_matches) :
                /\ pinecone_matches[k].video_id = response.results[g].video_id
                /\ pinecone_matches[k].score < request.threshold

\* C25: within each group of the response the matches are non-increasing in
\* similarity score, whatever the order of the pool.
C25_GroupsNonIncreasing ==
    search_pc = "done"
    => \A g \in 1..Len(response.results) :
          \A k \in 1..(Len(response.results[g].matches) - 1) :
             response.results[g].matches[k].similarity_score
                >= response.results[g].matches[k + 1].similarity_score

\* the first n elements of s
Prefix(s, n) == SubSeq(s, 1, IF Len(s) < n THEN Len(s) ELSE n)

\* the candidates of the pool at or above the threshold, in pool order
AtOrAbove ==
    SelectSeq(pinecone_matches, LAMBDA m : m.score >= request.threshold)

\* the videos of the candidates ms, each once, in order of first appearance
RECURSIVE FirstAppearances(_, _)
FirstAppearances(ms, seen) ==
    IF ms = <<>>
    THEN <<>>
    ELSE IF Head(ms).video_id \in seen
    THEN FirstAppearances(Tail(ms), seen)
    ELSE <<Head(ms).video_id>>
            \o FirstAppearances(Tail(ms), seen \cup {Head(ms).video_id})

\* the reference grouping: the first max_videos videos in order of first
\* appearance, each with its first max_results_per_video candidates
ReferenceGroups ==
    LET ids == Prefix(FirstAppearances(AtOrAbove, {}), request.max_videos)
    IN  [g \in 1..Len(ids) |->
           LET own == Prefix(SelectSeq(AtOrAbove,
                                       LAMBDA m : m.video_id = ids[g]),
                             request.max_results_per_video)
           IN  [video_id |-> ids[g],
                matches |-> [k \in 1..Len(own) |->
                                [frame_id |-> own[k].frame_id,
                                 similarity_score |-> own[k].score]]]]

\* the pool [(A, 0.9), (A, 0.8), (B, 0.85), (C, 0.3)] asked with threshold
\* 0.5, max_results_per_video 1 and max_videos 2
ExampleSearch ==
    /\ pinecone_matches =
          <<[frame_id |-> 1, video_id |-> "A", score |-> 90],
            [frame_id |-> 2, video_id |-> "A", score |-> 80],
            [frame_id |-> 3, video_id |-> "B", score |-> 85],
            [frame_id |-> 4, video_id |-> "C", score |-> 30]>>
    /\ request = [threshold |-> 50, max_results_per_video |-> 1,
                  max_videos |-> 2]

\* C26: the groups of the response are the reference grouping of the pool;
\* for the example pool they are [A: [0.9], B: [0.85]], with 2 matches in
\* total.
C26_ReferenceGrouping ==
    search_pc = "done"
    => /\ response.results = ReferenceGroups
       /\ ExampleSearch
          => /\ response.results =
                   <<[video_id |-> "A",
                      matches |-> <<[frame_id |-> 1,
                                     similarity_score |-> 90]>>],
                     [video_id |-> "B",
                      matches |-> <<[frame_id |-> 3,
                                     similarity_score |-> 85]>>]>>
             /\ response.total_matches = 2

\* C26 witness: the example pool has been answered.
C26_Witness ==
    /\ search_pc = "done"
    /\ ExampleSearch
    /\ response.total_videos = 2

\* C27: an iteration of the scan never leaves more than max_videos groups in
\* the dict, and it appends the candidate of a video that has a group with
\* room left to that group.
C27_VideoAdmission ==
    [][cursor' = cursor + 1
       => LET m == filtered[cursor + 1]
          IN  /\ Len(video_results') <= request.max_videos
              /\ HasGroup(video_results, m.video_id)
                 => LET g == GroupOf(video_results, m.video_id)
                    IN  Len(video_results[g].matches)
                           < request.max_results_per_video
                        => video_results'[g].matches =
                              Append(video_results[g].matches,
                                     [frame_id |-> m.frame_id,
                                      similarity_score |-> m.score])]_vars

\* the dict after the loop of lines 91-131 has run over all of ms with its
\* break never taken
RECURSIVE full_scan(_, _, _)
full_scan(vr, ms, rq) ==
    IF ms = <<>>
    THEN vr
    ELSE full_scan(scan_match(vr, Head(ms), rq).video_results, Tail(ms), rq)

\* C28: the response is the response of a scan of the whole filtered list,
\* and when the scan stops early no candidate it has not read belongs to a
\* returned video whose group has room left.
C28_EarlyStopIsOptimization ==
    search_pc = "done"
    => /\ response
             = search_response(full_scan(<<>>, filtered, request), request)
       /\ \A k \in (cursor + 1)..Len(filtered) :
             \A g \in 1..Len(response.results) :
                response.results[g].video_id = filtered[k].video_id
                => Len(response.results[g].matches)
                      >= request.max_results_per_video

\* C28 witness: the scan broke off before a candidate of a returned video
\* and before the candidate of a video that has no group.
C28_Witness ==
    /\ search_pc = "done"
    /\ \E k \in (cursor + 1)..Len(filtered) :
          HasGroup(response.results, filtered[k].video_id)
    /\ \E k \in (cursor + 1)..Len(filtered) :
          ~HasGroup(video_results, filtered[k].video_id)

\* C29: an empty pool is answered with a response of zero videos, zero
\* matches, no group and average similarity 0.0.
C29_EmptyPool ==
    (search_pc = "done" /\ pinecone_matches = <<>>)
    => /\ DOMAIN response = {"total_videos", "total_matches", "results",
                             "average_similarity"}
       /\ response.total_videos = 0
       /\ response.total_matches = 0
       /\ response.results = <<>>
       /\ response.average_similarity = Zero

\* C29 witness: a request on an empty pool has been answered without a scan.
C29_Witness ==
    /\ search_pc = "done"
    /\ pinecone_matches = <<>>
    /\ cursor = 0
    /\ response.total_videos = 0

\* the similarity scores of all matches of the response
ReturnedScores ==
    Concat([g \in 1..Len(response.results) |->
              [k \in 1..Len(response.results[g].matches) |->
                  response.results[g].matches[k].similarity_score]])

\* C30: total_matches is the sum of the sizes of the returned groups,
\* total_videos is their number, and average_similarity is the mean score
\* of the returned matches, or 0.0 when there is none.
C30_ResponseAggregates ==
    search_pc = "done"
    => /\ response.total_matches = Len(ReturnedScores)
       /\ response.total_videos = Len(response.results)
       /\ IF ReturnedScores = <<>>
          THEN response.average_similarity = Zero
          ELSE /\ response.average_similarity.den > 0
               /\ response.average_similarity.num * Len(ReturnedScores)
                     = Sum(ReturnedScores) * response.average_similarity.den

\* C30 witness: a response with several matches whose scores differ, cut
\* from a scan that held a group more than it returns.
C30_Witness ==
    /\ search_pc = "done"
    /\ Len(video_results) > Len(response.results)
    /\ \E i, j \in 1..Len(ReturnedScores) :
          ReturnedScores[i] # ReturnedScores[j]

\* C35: when the delete of the vectors fails, delete-video answers with an
\* error, and leaves the video row, its job rows, its frame rows and its
\* blob as they are, whatever S3 and the database would have answered.
C35_IndexFailureLeavesVideo ==
    \A v \in DOMAIN videos : \A s3Ok, dbOk \in BOOLEAN :
       /\ delete_video_status(v, FALSE, s3Ok, dbOk) = 500
       /\ ~ ENABLED (/\ delete_video(v, FALSE, s3Ok, dbOk)
                     /\ <<videos, jobs, frames, blobs>>'
                           # <<videos, jobs, frames, blobs>>)

\* C35 witness: delete-video is called for a video that has its blob, a job
\* row and frame rows.
C35_Witness ==
    \E v \in DOMAIN videos :
        /\ videos[v].s3_key \in blobs
        /\ JobsOf(v, jobs) # {}
        /\ FramesOf(v, frames) # EmptyBag
        /\ ENABLED (\E s3Ok, dbOk \in BOOLEAN :
                       delete_video(v, FALSE, s3Ok, dbOk))

\* the jobs whose submission ends with this step: the job upload_video has
\* created, or the job of the create_job request that returns
Submitted ==
    {j \in DOMAIN jobs' \ DOMAIN jobs : req' = req}
       \cup (IF req # NoBody /\ req' = NoBody THEN {req.job_id} ELSE {})

\* C33: a submission that ends leaves its job either with a message in the
\* queue or marked FAILED, never PENDING without a message.
C33_PendingJobHasMessage ==
    [][\A j \in Submitted \cap DOMAIN jobs' :
          jobs'[j].status = PENDING
          => \E m \in queue' : m.job_id = j]_vars

\* x held between lo and hi
clamp(x, lo, hi) == IF x < lo THEN lo ELSE IF x > hi THEN hi ELSE x

\* C31: the number of candidates asked of the index is
\* clamp(max_videos * max_results_per_video * 5, 50, 500), so it lies
\* between 50 and 500.
C31_PoolSizing ==
    search_pc \notin {"idle", "query"}
    => /\ top_k = clamp(request.max_videos * request.max_results_per_video * 5,
                        50, 500)
       /\ top_k >= 50
       /\ top_k <= 500

\* C31 witness: the index has been asked for a number of candidates strictly
\* between the two ends, by a request with both caps above 1.
C31_Witness ==
    /\ search_pc = "start"
    /\ request.max_videos > 1
    /\ request.max_results_per_video > 1
    /\ top_k = request.max_videos * request.max_results_per_video * 5
    /\ top_k > 50
    /\ top_k < 500

\* the smallest integer at or above n / s
Ceil(n, s) == (n + s - 1) \div s

\* t1 <= t2 for two quotients with positive denominators
AtMost(t1, t2) == t1.num * t2.den <= t2.num * t1.den

\* C32: extract_frames returns the frames at positions 0, s, 2s, ... below
\* N in that order, ceil(N/s) of them, with one timestamp per frame and the
\* timestamps non-decreasing; the run that stores them leaves the video
\* with the frame rows 0..count-1, one row per sampled frame.
C32_SamplerStride ==
    extract_pc = "returned"
    => /\ sampled = [k \in 1..Ceil(cap.frames, sample_rate) |->
                        (k - 1) * sample_rate]
       /\ Len(timestamps) = Len(sampled)
       /\ \A k \in 1..(Len(timestamps) - 1) :
             AtMost(timestamps[k], timestamps[k + 1])
       /\ \A w \in Workers :
             pc[w] = "complete"
             => FramesOf(message[w].video_id, frames)
                   = SetToBag({[video_id |-> message[w].video_id,
                                frame_index |-> i] :
                                  i \in 0..(Len(sampled) - 1)})

\* C32 witness: a file whose length is no multiple of the stride has been
\* sampled to several frames and the worker has stored them.
C32_Witness ==
    /\ extract_pc = "returned"
    /\ sample_rate > 1
    /\ cap.frames % sample_rate # 0
    /\ Len(sampled) > 1
    /\ \E w \in Workers :
          /\ pc[w] = "complete"
          /\ BagCardinality(FramesOf(message[w].video_id, frames))
                = Len(sampled)

\* C34: the number of video rows never exceeds the configured limit, however
\* many uploads run at once.
C34_LimitUnderConcurrency ==
    Cardinality(DOMAIN videos) <= max_videos_limit

====
